---- MODULE Spec2Model ----
(***************************************************************************)
(* Model of jesaavedrav/log_analyzer: the configuration-driven pipeline    *)
(* (main.py, src/config.py, src/visualizer.py) and the standalone script   *)
(* (log_analyzer.py).                                                      *)
(*                                                                         *)
(* A Python str is a sequence of one-character strings.  A Python dict is  *)
(* a sequence of entries in insertion order with pairwise distinct keys.   *)
(***************************************************************************)
EXTENDS Integers, Sequences, FiniteSets, TLC

VARIABLES
    pc,             \* position of main()
    config_file,    \* content of the file at args.config, or Missing
    patterns_file,  \* content of the file at log_patterns_file, or Missing
    outdir,         \* the output directory: NoDir, or file name -> content
    config,         \* main's local `config`: None or the Config object
    visualizer,     \* main's local `visualizer`: None or the LogVisualizer
    fig,            \* the figure the last chart operation built, or None
    shown,          \* charts displayed by fig.show() in this run, in order
    written,        \* file names written in this run
    exc,            \* the exception being propagated, or None
    stdout,         \* the report line main() printed last
    ret,            \* main()'s return value, or None
    escaped,        \* the exception that left main(), or None
    run,            \* number of the current invocation of main()
    first_outdir    \* the output directory as the first finished run left it

vars == <<pc, config_file, patterns_file, outdir, config, visualizer, fig,
          shown, written, exc, stdout, ret, escaped, run, first_outdir>>

\* Python's None, for the variables that hold an object
None == [none |-> TRUE]

\* ---------------------------------------------------------------- bounds

MaxMsgLen == 5      \* longest message of the preprocessor's inputs
MaxMsgs == 2        \* most messages of one category
MaxFormats == 2     \* longest `formats` list
MaxRuns == 2        \* invocations of main() on the same directory

\* ---------------------------------------------------------------- strings

Chars == {"X", "y", " ", "{", "}"}

Whitespace == {" "}

SeqsUpTo(S, n) == UNION {[1..k -> S] : k \in 0..n}

Strings == SeqsUpTo(Chars, MaxMsgLen)

\* str.find: the index of the first occurrence of c in s, 0 when absent
RECURSIVE FindFrom(_, _, _)
FindFrom(s, c, i) ==
    IF i > Len(s) THEN 0
    ELSE IF s[i] = c THEN i
    ELSE FindFrom(s, c, i + 1)

\* msg.split('{')[0]
SplitFirst(msg) ==
    LET i == FindFrom(msg, "{", 1)
    IN  IF i = 0 THEN msg ELSE SubSeq(msg, 1, i - 1)

RECURSIVE LStrip(_)
LStrip(s) ==
    IF s # <<>> /\ Head(s) \in Whitespace THEN LStrip(Tail(s)) ELSE s

RECURSIVE RStrip(_)
RStrip(s) ==
    IF s # <<>> /\ s[Len(s)] \in Whitespace
    THEN RStrip(SubSeq(s, 1, Len(s) - 1))
    ELSE s

\* str.strip()
Strip(s) == RStrip(LStrip(s))

\* variant: the prefix is not stripped
PreprocessMsgNoStrip(msg) == SplitFirst(msg)

\* msg.split('{')[0].strip()
PreprocessMsg(msg) == Strip(SplitFirst(msg))

\* ---------------------------------------------------------------- catalogs

Entry(cat, msgs) == [cat |-> cat, msgs |-> msgs]

Keys(logs) == [i \in DOMAIN logs |-> logs[i].cat]

\* LogVisualizer._preprocess_logs
PreprocessLogs(logs) ==
    [i \in DOMAIN logs |->
        Entry(logs[i].cat,
              [j \in DOMAIN logs[i].msgs |-> PreprocessMsg(logs[i].msgs[j])])]


Range(f) == {f[i] : i \in DOMAIN f}

RECURSIVE SumSeq(_)
SumSeq(s) == IF s = <<>> THEN 0 ELSE Head(s) + SumSeq(Tail(s))

RECURSIVE Concat(_)
Concat(ss) == IF ss = <<>> THEN <<>> ELSE Head(ss) \o Concat(Tail(ss))

\* {category: len(messages) for category, messages in logs.items()}
CategoryCounts(logs) ==
    [i \in DOMAIN logs |-> [Category |-> logs[i].cat, Count |-> Len(logs[i].msgs)]]

\* variant: the distinct messages are counted
SeverityTotalDistinct(logs) ==
    Cardinality(UNION {{logs[i].msgs[j] : j \in DOMAIN logs[i].msgs} : i \in DOMAIN logs})

\* sum(len(msgs) for msgs in logs.values())
SeverityTotal(logs) == SumSeq([i \in DOMAIN logs |-> Len(logs[i].msgs)])

\* the rows one loop of _prepare_detailed_analysis_data appends
Rows(logs, severity) ==
    [i \in DOMAIN logs |->
        [Category |-> logs[i].cat, Count |-> Len(logs[i].msgs), Severity |-> severity]]

\* variant: the two loops are in the other order
PrepareWarningsFirst(vis) ==
    Rows(vis.processed_warning_logs, "WARNING") \o Rows(vis.processed_error_logs, "ERROR")

\* LogVisualizer._prepare_detailed_analysis_data
PrepareDetailedAnalysisData(vis) ==
    Rows(vis.processed_error_logs, "ERROR") \o Rows(vis.processed_warning_logs, "WARNING")

\* messages = []; for msgs in logs.values(): messages.extend(msgs)
FlattenMessages(logs) == Concat([i \in DOMAIN logs |-> logs[i].msgs])

\* LogVisualizer.__init__
NewLogVisualizer(cfg) ==
    [processed_error_logs   |-> PreprocessLogs(cfg.error_logs),
     processed_warning_logs |-> PreprocessLogs(cfg.warning_logs)]

\* ------------------------------------------------- the standalone script

\* {cat: [msg.split('{')[0] for msg in msgs] for cat, msgs in logs.items()}
StandalonePreprocess(logs) ==
    [i \in DOMAIN logs |->
        Entry(logs[i].cat,
              [j \in DOMAIN logs[i].msgs |-> SplitFirst(logs[i].msgs[j])])]

\* categories.extend([category] * len(messages)), and so on: len(messages)
\* rows per category, each holding len(messages) as its count
StandaloneRows(logs, severity) ==
    Concat([i \in DOMAIN logs |->
        [j \in DOMAIN logs[i].msgs |->
            [Category |-> logs[i].cat, Count |-> Len(logs[i].msgs),
             Severity |-> severity]]])

\* the DataFrame of log_analyzer.create_detailed_category_analysis
StandaloneDetailedTable(errors, warnings) ==
    StandaloneRows(StandalonePreprocess(errors), "ERROR")
        \o StandaloneRows(StandalonePreprocess(warnings), "WARNING")

\* px.treemap(df, path=[..., severity, category], values=count): the value of
\* a leaf is the sum of the count column over the rows on that path
RECURSIVE TreemapTotal(_, _, _)
TreemapTotal(df, severity, category) ==
    IF df = <<>> THEN 0
    ELSE (IF Head(df).Severity = severity /\ Head(df).Category = category
          THEN Head(df).Count ELSE 0)
         + TreemapTotal(Tail(df), severity, category)

\* ----------------------------------------------------------- configuration

ConfigPath == "config/config.json"          \* args.config
LogPatternsPath == "config/log_patterns.json"  \* config_data['log_patterns_file']

TitleKeys == {"titles.error_distribution", "titles.severity_comparison",
              "titles.detailed_analysis", "titles.error_histogram",
              "titles.warning_histogram"}
LabelKeys == {"labels.severity", "labels.message_count", "labels.error_message",
              "labels.warning_message", "labels.frequency"}
ColorKeys == {"colors.error", "colors.warning"}

\* the keys the code reads from the main configuration file
ConfigKeys == {"log_patterns_file", "visualization", "output",
               "colors", "titles", "labels",
               "save_plots", "output_dir", "formats"}
              \cup TitleKeys \cup LabelKeys \cup ColorKeys

PatternKeys == {"error_logs", "warning_logs"}

Exception(type, arg) == [type |-> type, arg |-> arg]
Raise(e) == [ok |-> FALSE, exc |-> e]
Return(v) == [ok |-> TRUE, value |-> v]

\* the subclasses of Exception the modelled operations raise
ExceptionClasses == {"FileNotFoundError", "KeyError", "TypeError",
                     "JSONDecodeError", "OSError"}

\* the entries of `fields`, in order, that the dict with keys `keys` lacks
Lacking(keys, fields) ==
    LET absent(f) == f \notin keys
    IN  SelectSeq(fields, absent)

\* a file that does not exist, and one that is not JSON
Missing == [state |-> "Missing"]
Invalid == [state |-> "Invalid"]

\* config.load_config
load_config(cf, pf) ==
    IF cf.state = "Missing" THEN Raise(Exception("FileNotFoundError", ConfigPath))
    ELSE IF cf.state = "Invalid" THEN Raise(Exception("JSONDecodeError", ConfigPath))
    ELSE IF "log_patterns_file" \notin cf.keys
        THEN Raise(Exception("KeyError", "log_patterns_file"))
    ELSE IF pf.state = "Missing"
        THEN Raise(Exception("FileNotFoundError", LogPatternsPath))
    ELSE IF pf.state = "Invalid"
        THEN Raise(Exception("JSONDecodeError", LogPatternsPath))
    ELSE IF "visualization" \notin cf.keys
        THEN Raise(Exception("KeyError", "visualization"))
    ELSE IF Lacking(cf.keys, <<"colors", "titles", "labels">>) # <<>>
        THEN Raise(Exception("TypeError",
                             Head(Lacking(cf.keys, <<"colors", "titles", "labels">>))))
    ELSE IF "output" \notin cf.keys
        THEN Raise(Exception("KeyError", "output"))
    ELSE IF Lacking(cf.keys, <<"save_plots", "output_dir", "formats">>) # <<>>
        THEN Raise(Exception("TypeError",
                   Head(Lacking(cf.keys, <<"save_plots", "output_dir", "formats">>))))
    ELSE IF Lacking(pf.keys, <<"error_logs", "warning_logs">>) # <<>>
        THEN Raise(Exception("KeyError",
                   Head(Lacking(pf.keys, <<"error_logs", "warning_logs">>))))
    ELSE Return([visualization |-> cf.keys \cap (TitleKeys \cup LabelKeys \cup ColorKeys),
                 output |-> [save_plots |-> cf.save_plots, formats |-> cf.formats],
                 error_logs |-> pf.error_logs,
                 warning_logs |-> pf.warning_logs])

\* the output directory: absent, or present with its files (name -> content)
NoDir == [exists |-> FALSE, files |-> [p \in {} |-> None]]
EmptyDir == [exists |-> TRUE, files |-> [p \in {} |-> None]]

\* config.ensure_output_dir, when mkdir succeeds
ensure_output_dir(dir) == IF ~dir.exists THEN EmptyDir ELSE dir

\* ------------------------------------------------------------------ charts

Charts == <<"error_distribution", "severity_comparison", "detailed_analysis",
            "error_histogram", "warning_histogram">>

\* the configuration entries a chart operation reads, in the order it reads them
RequiredKeys(name) ==
    CASE name = "error_distribution" -> <<"titles.error_distribution">>
      [] name = "severity_comparison" ->
            <<"titles.severity_comparison", "labels.severity", "labels.message_count">>
      [] name = "detailed_analysis" ->
            <<"colors.error", "colors.warning", "titles.detailed_analysis">>
      [] name = "error_histogram" ->
            <<"colors.error", "titles.error_histogram", "labels.error_message",
              "labels.frequency">>
      [] name = "warning_histogram" ->
            <<"colors.warning", "titles.warning_histogram", "labels.warning_message",
              "labels.frequency">>

\* the aggregate a chart operation computes
ChartData(vis, name) ==
    CASE name = "error_distribution" -> CategoryCounts(vis.processed_error_logs)
      [] name = "severity_comparison" ->
            [x |-> <<"ERROR", "WARNING">>,
             y |-> <<SeverityTotal(vis.processed_error_logs),
                     SeverityTotal(vis.processed_warning_logs)>>]
      [] name = "detailed_analysis" -> PrepareDetailedAnalysisData(vis)
      [] name = "error_histogram" -> FlattenMessages(vis.processed_error_logs)
      [] name = "warning_histogram" -> FlattenMessages(vis.processed_warning_logs)

\* variant: a configuration entry that is not found reads as a default
BuildFigureLenient(vis, cfg, name) ==
    [ok |-> TRUE,
     value |-> [chart |-> name, data |-> ChartData(vis, name),
                layout |-> RequiredKeys(name)]]

\* the figure a chart operation builds, or the KeyError of the first
\* configuration entry it does not find
BuildFigure(vis, cfg, name) ==
    LET lacking == Lacking(cfg.visualization, RequiredKeys(name))
    IN  IF lacking # <<>> THEN Raise(Exception("KeyError", Head(lacking)))
        ELSE Return([chart |-> name, data |-> ChartData(vis, name),
                     layout |-> RequiredKeys(name)])

FileName(name, fmt) == name \o "." \o fmt

\* fig.write_html / fig.write_image: the file's content
Render(figure, fmt) == [format |-> fmt, figure |-> figure]

\* variant: open(path, 'a'), an existing file is appended to
WriteFileAppend(dir, path, content) ==
    [dir EXCEPT !.files =
        [p \in DOMAIN dir.files \cup {path} |->
            IF p # path THEN dir.files[p]
            ELSE IF path \in DOMAIN dir.files
                 THEN [format |-> content.format,
                       figure |-> <<dir.files[p].figure, content.figure>>]
                 ELSE content]]

\* variant: the directory is emptied before the file is written
WriteFileClobber(dir, path, content) ==
    [dir EXCEPT !.files = [p \in {path} |-> content]]

\* open(path, 'w') and write: the file is created or replaced
WriteFile(dir, path, content) ==
    [dir EXCEPT !.files =
        [p \in DOMAIN dir.files \cup {path} |->
            IF p = path THEN content ELSE dir.files[p]]]

\* the formats _save_figure writes a file for
Writes(fmt) == fmt \in {"html", "png"}

\* variant: the loop returns after its first format
SaveFigureFirstOnly(dir, output, figure, name, k) ==
    IF ~output.save_plots \/ k = 0 \/ ~Writes(output.formats[1]) THEN dir
    ELSE WriteFile(dir, FileName(name, output.formats[1]),
                   Render(figure, output.formats[1]))

\* variant: save_plots is not consulted
SaveFigureAlways(dir, output, figure, name, k) ==
    LET fmts == {output.formats[i] : i \in 1..k} \cap {"html", "png"}
    IN  [dir EXCEPT !.files =
            [p \in DOMAIN dir.files \cup {FileName(name, f) : f \in fmts} |->
                IF \E f \in fmts : p = FileName(name, f)
                THEN Render(figure, CHOOSE f \in fmts : p = FileName(name, f))
                ELSE dir.files[p]]]

\* LogVisualizer._save_figure after the first k formats of the loop
RECURSIVE SaveFigure(_, _, _, _, _)
SaveFigure(dir, output, figure, name, k) ==
    IF ~output.save_plots \/ k = 0 THEN dir
    ELSE LET before == SaveFigure(dir, output, figure, name, k - 1)
             fmt == output.formats[k]
         IN  IF Writes(fmt)
             THEN WriteFile(before, FileName(name, fmt), Render(figure, fmt))
             ELSE before

\* the file names those k iterations write
SavedNames(output, name, k) ==
    IF ~output.save_plots THEN {}
    ELSE {FileName(name, output.formats[i]) :
            i \in {j \in 1..k : Writes(output.formats[j])}}

\* ------------------------------------------------------------------ inputs

Formats == {"html", "png", "svg"}

FormatLists == SeqsUpTo(Formats, MaxFormats)

\* a well-formed configuration file, and the same with one key missing
ConfigFiles ==
    {Missing, Invalid} \cup
    {[state |-> "OK", keys |-> ConfigKeys \ m, save_plots |-> b, formats |-> f] :
        m \in {{}} \cup {{k} : k \in ConfigKeys}, b \in BOOLEAN, f \in FormatLists}

Str1 == <<"X", " ", "{", "y", "}">>     \* "X {y}"
Str2 == <<"X">>                          \* "X"
Str3 == <<" ", "y", " ">>                \* " y "

PatternContents ==
    {[error_logs |-> <<Entry("A", <<Str1, Str2>>), Entry("B", <<Str3>>)>>,
      warning_logs |-> <<Entry("C", <<Str1>>)>>],
     [error_logs |-> <<Entry("B", <<Str3>>)>>,
      warning_logs |-> <<Entry("A", <<Str2, Str3>>), Entry("B", <<Str2>>)>>]}

PatternFiles ==
    {Missing, Invalid} \cup
    {[state |-> "OK", keys |-> PatternKeys \ m,
      error_logs |-> c.error_logs, warning_logs |-> c.warning_logs] :
        m \in {{}} \cup {{k} : k \in PatternKeys}, c \in PatternContents}

\* ------------------------------------------------------------------ main()

Init ==
    /\ pc = "parse_args"
    /\ config_file \in ConfigFiles
    /\ patterns_file \in PatternFiles
    /\ outdir = NoDir
    /\ config = None
    /\ visualizer = None
    /\ fig = None
    /\ shown = <<>>
    /\ written = {}
    /\ exc = None
    /\ stdout = <<>>
    /\ ret = None
    /\ escaped = None
    /\ run = 1
    /\ first_outdir = None

Environment == <<config_file, patterns_file>>
History == <<run, first_outdir>>

Returned(code) == [value |-> code]

\* args = parse_args(): outside the try block; argparse ends a usage error or
\* --help by raising SystemExit
ParseArgs ==
    /\ pc = "parse_args"
    /\ \/ /\ pc' = "load_config"
          /\ UNCHANGED escaped
       \/ /\ pc' = "exited"
          /\ escaped' = Exception("SystemExit", "usage")
    /\ UNCHANGED <<Environment, History, outdir, config, visualizer, fig, shown,
                   written, exc, stdout, ret>>

\* config = load_config(args.config).  The directory load_config makes for
\* a configuration path whose parent is absent is not the output directory
\* and is left out.
LoadConfig ==
    /\ pc = "load_config"
    /\ LET r == load_config(config_file, patterns_file)
       IN  IF r.ok
           THEN /\ config' = r.value
                /\ pc' = "ensure_output_dir"
                /\ UNCHANGED exc
           ELSE /\ exc' = r.exc
                /\ pc' = "except"
                /\ UNCHANGED config
    /\ UNCHANGED <<Environment, History, outdir, visualizer, fig, shown, written,
                   stdout, ret, escaped>>

\* ensure_output_dir(config): mkdir may fail (a read-only parent)
EnsureOutputDir ==
    /\ pc = "ensure_output_dir"
    /\ \/ /\ outdir' = ensure_output_dir(outdir)
          /\ pc' = "LogVisualizer"
          /\ UNCHANGED exc
       \/ /\ ~outdir.exists
          /\ exc' = Exception("OSError", "output_dir")
          /\ pc' = "except"
          /\ UNCHANGED outdir
    /\ UNCHANGED <<Environment, History, config, visualizer, fig, shown, written,
                   stdout, ret, escaped>>

\* visualizer = LogVisualizer(config)
VisualizerInit ==
    /\ pc = "LogVisualizer"
    /\ visualizer' = NewLogVisualizer(config)
    /\ pc' = Charts[1]
    /\ UNCHANGED <<Environment, History, outdir, config, fig, shown, written, exc,
                   stdout, ret, escaped>>

\* what main() runs after the chart operation `name`
After(name) ==
    LET i == CHOOSE j \in DOMAIN Charts : Charts[j] = name
    IN  IF i = Len(Charts) THEN "summary" ELSE Charts[i + 1]

\* one chart operation: compute, build the figure, save it, show it.  A write
\* of the save loop may fail (directory not writable, no image engine); the
\* files of the iterations before it stay.
CreateChart(name) ==
    /\ pc = name
    /\ LET b == BuildFigure(visualizer, config, name)
           n == Len(config.output.formats)
       IN  IF ~b.ok
           THEN /\ exc' = b.exc
                /\ pc' = "except"
                /\ UNCHANGED <<outdir, fig, shown, written>>
           ELSE /\ fig' = b.value
                /\ \/ /\ outdir' = SaveFigure(outdir, config.output, b.value, name, n)
                      /\ written' = written \cup SavedNames(config.output, name, n)
                      /\ shown' = Append(shown, name)
                      /\ pc' = After(name)
                      /\ UNCHANGED exc
                   \/ \E k \in 1..n :
                      /\ config.output.save_plots
                      /\ Writes(config.output.formats[k])
                      /\ outdir' = SaveFigure(outdir, config.output, b.value, name, k - 1)
                      /\ written' = written \cup SavedNames(config.output, name, k - 1)
                      /\ exc' = Exception("OSError",
                                          FileName(name, config.output.formats[k]))
                      /\ pc' = "except"
                      /\ UNCHANGED shown
    /\ UNCHANGED <<Environment, History, config, visualizer, stdout, ret, escaped>>

create_error_distribution == CreateChart("error_distribution")
create_severity_comparison == CreateChart("severity_comparison")
create_detailed_analysis == CreateChart("detailed_analysis")
create_error_histogram == CreateChart("error_histogram")
create_warning_histogram == CreateChart("warning_histogram")

\* the completion messages, and return 0
Summary ==
    /\ pc = "summary"
    /\ stdout' = <<"Analysis completed successfully!">>
    /\ ret' = Returned(0)
    /\ pc' = "returned"
    /\ UNCHANGED <<Environment, History, outdir, config, visualizer, fig, shown,
                   written, exc, escaped>>

\* variant: the FileNotFoundError clause is absent
ExceptClausesGeneric(e) ==
    [stdout |-> <<"Unexpected error: ", e.arg>>, ret |-> 1]

\* the except clauses of main(): the report line printed and the value
\* returned for exception e
ExceptClauses(e) ==
    IF e.type = "FileNotFoundError"
    THEN [stdout |-> <<"Error: Configuration file not found: ", e.arg>>, ret |-> 1]
    ELSE [stdout |-> <<"Unexpected error: ", e.arg>>, ret |-> 1]

Except ==
    /\ pc = "except"
    /\ exc.type \in ExceptionClasses
    /\ stdout' = ExceptClauses(exc).stdout
    /\ ret' = Returned(ExceptClauses(exc).ret)
    /\ pc' = "returned"
    /\ UNCHANGED <<Environment, History, outdir, config, visualizer, fig, shown,
                   written, exc, escaped>>

Finished == pc \in {"returned", "exited"}

\* the program is started again with the same files and output directory
RunAgain ==
    /\ Finished
    /\ run < MaxRuns
    /\ run' = run + 1
    /\ first_outdir' = IF run = 1 THEN [outdir |-> outdir, ret |-> ret]
                       ELSE first_outdir
    /\ pc' = "parse_args"
    /\ config' = None
    /\ visualizer' = None
    /\ fig' = None
    /\ shown' = <<>>
    /\ written' = {}
    /\ exc' = None
    /\ stdout' = <<>>
    /\ ret' = None
    /\ escaped' = None
    /\ UNCHANGED <<Environment, outdir>>

Next ==
    \/ ParseArgs
    \/ LoadConfig
    \/ EnsureOutputDir
    \/ VisualizerInit
    \/ create_error_distribution
    \/ create_severity_comparison
    \/ create_detailed_analysis
    \/ create_error_histogram
    \/ create_warning_histogram
    \/ Summary
    \/ Except
    \/ RunAgain

Spec == Init /\ [][Next]_vars

\* ------------------------------------- the preprocessor on bounded catalogs

\* the lists of at most MaxMsgs messages drawn from `samples`
MessageLists(samples) == SeqsUpTo(samples, MaxMsgs)

\* the dicts whose keys are drawn from the two categories c1, c2
Catalogs(c1, c2, samples) ==
    {<<>>}
    \cup {<<Entry(c, ms)>> : c \in {c1, c2}, ms \in MessageLists(samples)}
    \cup {<<Entry(c, ms), Entry(d, ns)>> :
            c \in {c1}, d \in {c2},
            ms \in MessageLists(samples), ns \in MessageLists(samples)}
    \cup {<<Entry(d, ns), Entry(c, ms)>> :
            c \in {c1}, d \in {c2},
            ms \in MessageLists(samples), ns \in MessageLists(samples)}

StrBrace == <<"{">>                      \* "{"

ErrorSamples == {Str1, Str2}
WarningSamples == {StrBrace, Str3}

\* a Config as load_config returns it for a complete configuration that
\* saves nothing
LoadedConfig(errors, warnings) ==
    [visualization |-> TitleKeys \cup LabelKeys \cup ColorKeys,
     output |-> [save_plots |-> FALSE, formats |-> <<>>],
     error_logs |-> errors,
     warning_logs |-> warnings]

\* the state of main() when it constructs the LogVisualizer
AtConstructor(errors, warnings) ==
    /\ pc = "LogVisualizer"
    /\ config_file = [state |-> "OK", keys |-> ConfigKeys, save_plots |-> FALSE,
                      formats |-> <<>>]
    /\ patterns_file = [state |-> "OK", keys |-> PatternKeys,
                        error_logs |-> errors, warning_logs |-> warnings]
    /\ outdir = EmptyDir
    /\ config = LoadedConfig(errors, warnings)
    /\ visualizer = None
    /\ fig = None
    /\ shown = <<>>
    /\ written = {}
    /\ exc = None
    /\ stdout = <<>>
    /\ ret = None
    /\ escaped = None
    /\ run = 1
    /\ first_outdir = None

PreCatalogs ==
    Catalogs("A", "B", ErrorSamples)
    \cup {<<Entry("A", <<m>>)>> : m \in Strings}

InitPre ==
    \E errors \in PreCatalogs, warnings \in {<<>>, <<Entry("C", <<Str3, StrBrace>>)>>} :
        AtConstructor(errors, warnings)

NextPre == VisualizerInit

SpecPre == InitPre /\ [][NextPre]_vars

\* ------------------------------------------- the tables on bounded catalogs

InitTable ==
    \E errors \in Catalogs("A", "B", ErrorSamples),
       warnings \in Catalogs("C", "A", WarningSamples) :
        AtConstructor(errors, warnings)

\* log_analyzer.create_detailed_category_analysis, on the same catalogs
StandaloneDetailedAnalysis ==
    /\ pc = "LogVisualizer"
    /\ fig = None
    /\ fig' = [chart |-> "standalone_detailed_analysis",
               data |-> StandaloneDetailedTable(config.error_logs, config.warning_logs),
               layout |-> <<>>]
    /\ UNCHANGED <<Environment, History, pc, outdir, config, visualizer, shown,
                   written, exc, stdout, ret, escaped>>

NextTable ==
    \/ StandaloneDetailedAnalysis
    \/ VisualizerInit
    \/ create_error_distribution
    \/ create_severity_comparison
    \/ create_detailed_analysis
    \/ create_error_histogram
    \/ create_warning_histogram
    \/ Summary

SpecTable == InitTable /\ [][NextTable]_vars

\* ==================================================================
\* Properties
\* ==================================================================

ChartNames == Range(Charts)

FilesOf(dir) == DOMAIN dir.files

FileNotFoundReport(path) == <<"Error: Configuration file not found: ", path>>

MalformedConfig ==
    \/ config_file.state = "Invalid"
    \/ config_file.state = "OK" /\ config_file.keys # ConfigKeys

FileNotFoundCase ==
    \/ config_file.state = "Missing"
    \/ /\ config_file.state = "OK"
       /\ "log_patterns_file" \in config_file.keys
       /\ patterns_file.state = "Missing"

ExpectedFiles(formats) ==
    {FileName(c, f) : c \in ChartNames, f \in Range(formats)}

\* C3: after a successful run with save_plots true and formats drawn from
\* {html, png}, the files written under output_dir are exactly
\* <chart>.<fmt> for each of the five charts and each configured format.

C3_OneFilePerChartAndFormat ==
    (/\ pc = "returned"
     /\ ret = Returned(0)
     /\ config.output.save_plots
     /\ Range(config.output.formats) \subseteq {"html", "png"}) =>
        /\ written = ExpectedFiles(config.output.formats)
        /\ FilesOf(outdir) = ExpectedFiles(config.output.formats)
        /\ Cardinality(written) = 5 * Cardinality(Range(config.output.formats))

C3_Witness ==
    /\ pc = "returned"
    /\ ret = Returned(0)
    /\ run = 1
    /\ config.output.save_plots
    /\ config.output.formats = <<"html">>
    /\ FilesOf(outdir) = {"error_distribution.html", "severity_comparison.html",
                          "detailed_analysis.html", "error_histogram.html",
                          "warning_histogram.html"}

\* ------------------------------------------------------------------
ChartIndex(name) == CHOOSE i \in DOMAIN Charts : Charts[i] = name

\* a write of _save_figure failed in this run
SaveFailed ==
    /\ exc # None
    /\ exc.type = "OSError"
    /\ \E c \in ChartNames, f \in Formats : exc.arg = FileName(c, f)

FailedChart == CHOOSE c \in ChartNames : \E f \in Formats : exc.arg = FileName(c, f)

RequestedFiles(name) ==
    {FileName(name, f) : f \in {g \in Range(config.output.formats) : Writes(g)}}

\* C4 (as stated): when the save of one chart fails, main() returns 1, the
\* files written before stay, and the save of every other chart of the run
\* still takes place.
C4_Original ==
    (pc = "returned" /\ SaveFailed) =>
        /\ ret = Returned(1)
        /\ \A c \in ChartNames \ {FailedChart} : RequestedFiles(c) \subseteq written

\* C4 (amended): when the save of one chart fails, main() returns 1 with the
\* generic report, every file of the charts before it is in the directory
\* with the content rendered from that chart's own figure, and the charts
\* after it in main()'s order are not run: none of them is shown or saved.
\* A chart's file holds the figure built from the catalogs and the
\* configuration alone.
C4_SaveFailureStopsRun ==
    /\ \A c \in ChartNames, f \in Formats :
          FileName(c, f) \in written =>
              /\ FileName(c, f) \in FilesOf(outdir)
              /\ outdir.files[FileName(c, f)] =
                    [format |-> f,
                     figure |-> [chart |-> c, data |-> ChartData(visualizer, c),
                                 layout |-> RequiredKeys(c)]]
    /\ (pc = "returned" /\ SaveFailed) =>
          /\ ret = Returned(1)
          /\ stdout = <<"Unexpected error: ", exc.arg>>
          /\ shown = SubSeq(Charts, 1, ChartIndex(FailedChart) - 1)
          /\ \A c \in ChartNames :
                /\ ChartIndex(c) < ChartIndex(FailedChart) =>
                      RequestedFiles(c) \subseteq written
                /\ ChartIndex(c) > ChartIndex(FailedChart) =>
                      RequestedFiles(c) \cap written = {}

C4_Witness ==
    /\ pc = "returned"
    /\ SaveFailed
    /\ run = 1
    /\ FailedChart = "detailed_analysis"
    /\ exc.arg = "detailed_analysis.png"
    /\ FilesOf(outdir) = {"error_distribution.html", "error_distribution.png",
                          "severity_comparison.html", "severity_comparison.png",
                          "detailed_analysis.html"}

C9_NoSaveWritesNothing ==
    (config # None /\ ~config.output.save_plots) =>
        /\ written = {}
        /\ FilesOf(outdir) = {}
        /\ (pc = "returned" /\ ret = Returned(0)) => shown = Charts

C9_Witness ==
    /\ pc = "returned"
    /\ ret = Returned(0)
    /\ ~config.output.save_plots
    /\ config.output.formats = <<"html", "png">>
    /\ shown = Charts
    /\ outdir = EmptyDir

\* ------------------------------------------------------------------
\* r is m cut before its first '{' and without the whitespace at its ends
IsTrimmedPrefix(m, r) ==
    \E k \in 0..Len(m) :
        /\ \A i \in 1..k : m[i] # "{"
        /\ k = Len(m) \/ m[k + 1] = "{"
        /\ \E a \in 0..k :
              /\ a + Len(r) <= k
              /\ \A i \in 1..a : m[i] = " "
              /\ \A i \in 1..Len(r) : r[i] = m[a + i]
              /\ \A i \in (a + Len(r) + 1)..k : m[i] = " "
              /\ r # <<>> => (r[1] # " " /\ r[Len(r)] # " ")

SameShape(in, out) ==
    /\ Len(out) = Len(in)
    /\ \A i \in DOMAIN in :
          /\ out[i].cat = in[i].cat
          /\ Len(out[i].msgs) = Len(in[i].msgs)
          /\ \A j \in DOMAIN in[i].msgs :
                /\ IsTrimmedPrefix(in[i].msgs[j], out[i].msgs[j])
                /\ in[i].msgs[j] = Str1 => out[i].msgs[j] = <<"X">>
                \* without '{' nothing but the whitespace at the ends is lost:
                \* what stays are the positions between the first and the
                \* last character that is not whitespace
                /\ "{" \notin Range(in[i].msgs[j]) =>
                      Len(out[i].msgs[j]) =
                          Cardinality({n \in DOMAIN in[i].msgs[j] :
                              \E a \in 1..n, b \in n..Len(in[i].msgs[j]) :
                                  /\ in[i].msgs[j][a] # " "
                                  /\ in[i].msgs[j][b] # " "})

C5_Preprocessed ==
    visualizer # None =>
        /\ SameShape(config.error_logs, visualizer.processed_error_logs)
        /\ SameShape(config.warning_logs, visualizer.processed_warning_logs)

\* C5: _preprocess_logs returns the same category keys in the same order
\* and, per category, a list of the same length whose j-th message is the
\* j-th input message cut before its first '{' and stripped of the
\* whitespace at both ends (a message without '{' is returned whole after
\* the trim, "X {y}" becomes "X"); the catalog passed in is left as it was.
C5_PreprocessLogs ==
    /\ []C5_Preprocessed
    /\ [][config' = config /\ patterns_file' = patterns_file]_vars

C5_Witness ==
    /\ visualizer # None
    /\ config.error_logs = <<Entry("A", <<Str1, Str2>>), Entry("B", <<Str2, Str1>>)>>
    /\ visualizer.processed_error_logs =
          <<Entry("A", <<Str2, Str2>>), Entry("B", <<Str2, Str2>>)>>
    /\ visualizer.processed_warning_logs = <<Entry("C", <<<<"y">>, <<>>>>)>>

\* ------------------------------------------------------------------
\* C6: _prepare_detailed_analysis_data returns one row per category of the
\* error catalog, in catalog order and with severity ERROR, then one row per
\* category of the warning catalog, in catalog order and with severity
\* WARNING; each row's count is the number of templates the catalog holds
\* for that category.
C6_DetailedRows ==
    (fig # None /\ fig.chart = "detailed_analysis") =>
        LET E == config.error_logs
            W == config.warning_logs
            df == fig.data
        IN  /\ Len(df) = Len(E) + Len(W)
            /\ \A i \in DOMAIN E :
                  /\ df[i].Category = E[i].cat
                  /\ df[i].Severity = "ERROR"
                  /\ df[i].Count = Len(E[i].msgs)
            /\ \A i \in DOMAIN W :
                  /\ df[Len(E) + i].Category = W[i].cat
                  /\ df[Len(E) + i].Severity = "WARNING"
                  /\ df[Len(E) + i].Count = Len(W[i].msgs)
            /\ \A i \in DOMAIN df :
                  df[i].Category \in
                      Range(Keys(IF df[i].Severity = "ERROR" THEN E ELSE W))

C6_Witness ==
    /\ fig # None
    /\ fig.chart = "detailed_analysis"
    /\ config.error_logs = <<Entry("A", <<Str1, Str2>>), Entry("B", <<Str2>>)>>
    /\ config.warning_logs = <<Entry("C", <<Str3>>)>>
    /\ fig.data = <<[Category |-> "A", Count |-> 2, Severity |-> "ERROR"],
                    [Category |-> "B", Count |-> 1, Severity |-> "ERROR"],
                    [Category |-> "C", Count |-> 1, Severity |-> "WARNING"]>>

\* ------------------------------------------------------------------
\* the number of (category, position) pairs of a catalog
Templates(logs) ==
    Cardinality(UNION {{<<i, j>> : j \in DOMAIN logs[i].msgs} : i \in DOMAIN logs})

\* C7: the totals of create_severity_comparison are, for the ERROR bar, the
\* number of templates of the error catalog over all its categories and,
\* for the WARNING bar, that of the warning catalog; templates that become
\* equal or empty by preprocessing count once each.
C7_SeverityTotals ==
    (fig # None /\ fig.chart = "severity_comparison") =>
        /\ fig.data.x = <<"ERROR", "WARNING">>
        /\ fig.data.y = <<Templates(config.error_logs), Templates(config.warning_logs)>>

C7_Witness ==
    /\ fig # None
    /\ fig.chart = "severity_comparison"
    /\ config.error_logs = <<Entry("A", <<Str1, Str2>>), Entry("B", <<Str2>>)>>
    /\ config.warning_logs = <<Entry("C", <<StrBrace, StrBrace>>)>>
    /\ visualizer.processed_error_logs = <<Entry("A", <<Str2, Str2>>), Entry("B", <<Str2>>)>>
    /\ visualizer.processed_warning_logs = <<Entry("C", <<<<>>, <<>>>>)>>
    /\ fig.data.y = <<3, 2>>

\* ------------------------------------------------------------------
\* C10: the table that the standalone create_detailed_category_analysis
\* feeds to the treemap gives each (severity, category) the total that
\* _prepare_detailed_analysis_data gives it, the number of templates of that
\* category.
C10_StandaloneSameTotals ==
    (fig # None /\ fig.chart = "standalone_detailed_analysis") =>
        LET df == PrepareDetailedAnalysisData(NewLogVisualizer(config))
        IN  /\ \A i \in DOMAIN config.error_logs :
                  LET c == config.error_logs[i].cat
                  IN  /\ TreemapTotal(df, "ERROR", c) = Len(config.error_logs[i].msgs)
                      /\ TreemapTotal(fig.data, "ERROR", c) = TreemapTotal(df, "ERROR", c)
            /\ \A i \in DOMAIN config.warning_logs :
                  LET c == config.warning_logs[i].cat
                  IN  /\ TreemapTotal(df, "WARNING", c) = Len(config.warning_logs[i].msgs)
                      /\ TreemapTotal(fig.data, "WARNING", c) =
                            TreemapTotal(df, "WARNING", c)

====
